---- MODULE Spec2Model ----
(***************************************************************************)
(* Model of mastersCopenhagen2022MVP.py: the radar projection set up by    *)
(* radar_factory (the RadarAxes class it builds and registers), the        *)
(* embedded table of example_data and the __main__ script that plots it.   *)
(*                                                                         *)
(* The module is run either as a script (the __main__ block, pc starting   *)
(* at "main") or imported, in which case a client calls radar_factory,     *)
(* creates axes with projection='radar' and uses the RadarAxes methods in  *)
(* any order (pc = "client").                                              *)
(*                                                                         *)
(* Numbers are fixed point:                                                *)
(*   angles in radians   : Pi units make pi, so 2*pi is TwoPi = 2 * Pi;    *)
(*   angles in degrees   : DegScale units make one degree;                 *)
(*   table values, radii : 10^9 units make 1.0 (the table has 9 decimals); *)
(*   axes coordinates    : 10 units make 1.0, so 0.5 is 5.                 *)
(* Pi is a multiple of every variable count the model uses, so that the    *)
(* division in np.linspace is exact, as it is (up to rounding) in floats.  *)
(***************************************************************************)
EXTENDS Integers, Sequences, FiniteSets, TLC

VARIABLES
    pc,            \* where the running program is
    projections,   \* the process-wide projection registry: name -> class
    current,       \* the arguments of the latest radar_factory call
    theta,         \* the angles the latest radar_factory call returned
    axs,           \* the axes created, in creation order
    fig,           \* the figure
    data,          \* the script's data
    spoke_labels,  \* the script's spoke_labels
    raised,        \* what the latest call raised (NoError: nothing)
    last,          \* the latest call made and its arguments
    ai,            \* the script's axes loop: index of the current axes
    ri             \* the script's row loop: index of the current row

vars == << pc, projections, current, theta, axs, fig, data, spoke_labels,
           raised, last, ai, ri >>

\* ------------------------------------------------------------ bounds
\* Largest variable count an importing program passes to radar_factory
\* besides the script's own count N.
MaxNumVars == 2
\* Most axes a configuring client creates.
MaxAxes == 2
\* Most lines a plotting client plots on its axes.
MaxLines == 1
\* Longest point sequence a plotting client plots.
MaxLen == 2

\* ------------------------------------------------------ fixed point
Pi == 2520
TwoPi == 2 * Pi
DegScale == 7
One == 1000000000

\* --------------------------------------------------------- exceptions
NoError == [type |-> "None", msg |-> "", arg |-> ""]
ValueError(msg, arg) == [type |-> "ValueError", msg |-> msg, arg |-> arg]
IndexError(msg) == [type |-> "IndexError", msg |-> msg, arg |-> ""]

\* ------------------------------------------------------------- numpy
\* np.linspace(start, stop, num, endpoint=True): num samples, stop included.
np_linspace_endpoint(start, stop, num) ==
    [i \in 1..num |->
        IF num = 1 THEN start
        ELSE start + (i - 1) * ((stop - start) \div (num - 1))]

\* np.linspace(start, stop, num, endpoint=False): step = (stop - start) / num,
\* sample i (from 0) is start + i * step.
np_linspace(start, stop, num) ==
    [i \in 1..num |-> start + (i - 1) * ((stop - start) \div num)]

\* np.degrees(x), elementwise: x * 180 / pi.
np_degrees(xs) == [i \in 1..Len(xs) |-> (xs[i] * 180 * DegScale) \div Pi]

\* np.append(xs, v)
np_append(xs, v) == Append(xs, v)

\* -------------------------------------------------------- the literals
\* N = 9 of the script.
N == 9

Frames == {"circle", "polygon"}

\* example_data(): the category labels, then one (name, rows) entry per map.
example_data ==
    << << "Kills", "ACS", "K-D Difference", "Assists", "KAST%", "ADR", "HS%", "First Kills", "First Kill Difference" >>,
       << "Icebox",
          <<
             << 700000000, 803448276, 0, 1000000000, 1000000000, 797872340, 410000000, 0, 0 >>,
             << 950000000, 910344828, 1000000000, 363636364, 833333333, 835106383, 520000000, 1000000000, 1000000000 >>,
             << 1000000000, 1000000000, 660000000, 545454545, 777777778, 1000000000, 250000000, 1000000000, 1000000000 >>,
             << 800000000, 827586207, 330000000, 636363636, 888888889, 808510638, 290000000, 660000000, 1000000000 >>,
             << 750000000, 686206897, 0, 363636364, 722222222, 760638298, 440000000, 660000000, 1000000000 >> >> >>,
       << "Fracture",
          <<
             << 681818182, 754325260, 666000000, 1000000000, 1000000000, 1000000000, 330000000, 666000000, 1000000000 >>,
             << 681818182, 747404844, 500000000, 100000000, 800000000, 781420765, 140000000, 666000000, 0 >>,
             << 727272727, 757785467, 333000000, 400000000, 866666667, 748633880, 200000000, 166000000, 0 >>,
             << 1000000000, 1000000000, 833000000, 500000000, 1000000000, 928961749, 230000000, 166000000, 1000000000 >>,
             << 545454545, 574394464, 166000000, 400000000, 800000000, 595628415, 180000000, 166000000, 0 >> >> >>,
       << "Haven",
          <<
             << 720000000, 740524781, 666000000, 500000000, 866666667, 792079208, 350000000, 333000000, 500000000 >>,
             << 640000000, 676384840, 500000000, 375000000, 933333333, 742574257, 420000000, 333000000, 166000000 >>,
             << 1000000000, 1000000000, 833000000, 125000000, 1000000000, 1000000000, 180000000, 833000000, 833000000 >>,
             << 320000000, 384839650, 166000000, 1000000000, 733333333, 529702970, 160000000, 166000000, 500000000 >>,
             << 520000000, 568513120, 333000000, 625000000, 866666667, 643564356, 260000000, 333000000, 166000000 >> >> >>,
       << "Breeze",
          <<
             << 850000000, 843636364, 833000000, 857142857, 948051948, 828571429, 500000000, 166000000, 500000000 >>,
             << 750000000, 683636364, 333000000, 714285714, 1000000000, 720000000, 370000000, 500000000, 500000000 >>,
             << 1000000000, 1000000000, 500000000, 714285714, 948051948, 1000000000, 270000000, 833000000, 166000000 >>,
             << 950000000, 880000000, 500000000, 571428571, 831168831, 954285714, 450000000, 166000000, 833000000 >>,
             << 600000000, 581818182, 166000000, 1000000000, 831168831, 605714286, 210000000, 500000000, 333000000 >> >> >> >>

\* colors of the script.
colors == << "b", "r", "g", "m", "y" >>

\* labels of the script's legend.
labels == << "Shao", "Zyppan", "Jinggg", "SUGETSU", "ANGE1" >>

\* The text of fig.text.
banner == "Top 5 players across the last 4 maps of Masters Copenhagen 2022"

\* The label the script gives every fill.
fill_label_default == "_child"
fill_label == "_nolegend_"

\* ax.set_rgrids([0.2, 0.4, 0.6, 0.8])
rgrids == << 200000000, 400000000, 600000000, 800000000 >>

\* list.pop() : the last element removed.
list_pop_last(l) == [popped |-> l[Len(l)], rest |-> SubSeq(l, 1, Len(l) - 1)]

\* list.pop(0): the first element removed, the others kept in order.
list_pop0(l) == [popped |-> Head(l), rest |-> Tail(l)]

\* ------------------------------------------------------ radar_factory
\* The RadarAxes class one radar_factory call builds: its methods close over
\* the call's num_vars, frame and theta.
RadarAxes(num_vars, frame, th) ==
    [name |-> "radar", RESOLUTION |-> 1,
     num_vars |-> num_vars, frame |-> frame, theta |-> th]

\* A radar_factory that rejects an unknown frame itself (not the code's).
radar_factory_eager(num_vars, frame) ==
    LET th == np_linspace(0, TwoPi, num_vars) IN
    IF frame \in Frames
    THEN [raised |-> NoError, theta |-> th, cls |-> << RadarAxes(num_vars, frame, th) >>]
    ELSE [raised |-> ValueError("Unknown value for 'frame': ", frame),
          theta |-> << >>, cls |-> << >>]

\* radar_factory(num_vars, frame): the angles, the class to register (a
\* sequence of one class; none when the call raises) and what it raises.
radar_factory(num_vars, frame) ==
    LET th == np_linspace(0, TwoPi, num_vars) IN
    [raised |-> NoError, theta |-> th, cls |-> << RadarAxes(num_vars, frame, th) >>]

\* A registry that keeps the first class registered under a name.
register_projection_keep(reg, cls) ==
    [n \in DOMAIN reg \cup {cls.name} |-> IF n \in DOMAIN reg THEN reg[n] ELSE cls]

\* register_projection(RadarAxes): the registry maps the class's name to it,
\* replacing what the name was mapped to.
register_projection(reg, cls) ==
    [n \in DOMAIN reg \cup {cls.name} |-> IF n = cls.name THEN cls ELSE reg[n]]

\* ------------------------------------------------------------ RadarAxes
\* A path: its vertex count and interpolation steps.
Path(n, steps) == [n_vertices |-> n, interpolation_steps |-> steps]

\* Path.interpolated(steps): every segment cut in steps pieces.
interpolated(path, steps) == Path((path.n_vertices - 1) * steps + 1, 1)

\* RadarTransform.transform_path_non_affine
transform_path_non_affine(cls, path) ==
    IF path.interpolation_steps > 1 THEN interpolated(path, cls.num_vars) ELSE path

\* Circle(center, radius), RegularPolygon(center, numVertices, radius), and
\* the shape of a spine; numVertices is 0 for a shape without vertices.
Shape(kind, center, radius, numVertices) ==
    [kind |-> kind, center |-> center, radius |-> radius, numVertices |-> numVertices]

NoShape == Shape("none", << 0, 0 >>, 0, 0)

\* Affine2D().scale(s): s is in tenths.
scale(shape, s) ==
    [shape EXCEPT !.center = << (shape.center[1] * s) \div 10, (shape.center[2] * s) \div 10 >>,
                  !.radius = (shape.radius * s) \div 10]

\* Affine2D.translate(tx, ty)
translate(shape, tx, ty) ==
    [shape EXCEPT !.center = << shape.center[1] + tx, shape.center[2] + ty >>]

\* Path.unit_regular_polygon(numVertices): radius 1, centred at (0, 0).
unit_regular_polygon(numVertices) == Shape("polygon", << 0, 0 >>, 10, numVertices)

\* RadarAxes._gen_axes_patch
_gen_axes_patch(cls) ==
    IF cls.frame = "circle"
    THEN [raised |-> NoError, value |-> Shape("circle", << 5, 5 >>, 5, 0)]
    ELSE IF cls.frame = "polygon"
    THEN [raised |-> NoError, value |-> Shape("polygon", << 5, 5 >>, 5, cls.num_vars)]
    ELSE [raised |-> ValueError("Unknown value for 'frame': ", cls.frame),
          value |-> NoShape]

\* A polygon spine left at the unit polygon's size and place.
_gen_axes_spines_unscaled(cls) ==
    IF cls.frame = "circle"
    THEN [raised |-> NoError, value |-> Shape("arc", << 5, 5 >>, 5, 0)]
    ELSE IF cls.frame = "polygon"
    THEN [raised |-> NoError, value |-> unit_regular_polygon(cls.num_vars)]
    ELSE [raised |-> ValueError("Unknown value for 'frame': ", cls.frame),
          value |-> NoShape]

\* RadarAxes._gen_axes_spines: the 'polar' spine. For a circle it is
\* PolarAxes's own arc spine, centred at (0.5, 0.5) with radius 0.5.
_gen_axes_spines(cls) ==
    IF cls.frame = "circle"
    THEN [raised |-> NoError, value |-> Shape("arc", << 5, 5 >>, 5, 0)]
    ELSE IF cls.frame = "polygon"
    THEN [raised |-> NoError,
          value |-> translate(scale(unit_regular_polygon(cls.num_vars), 5), 5, 5)]
    ELSE [raised |-> ValueError("Unknown value for 'frame': ", cls.frame),
          value |-> NoShape]

\* An artist of an axes: a Line2D (plot) or a Polygon (fill).
Artist(kind, xs, ys, color, label) ==
    [kind |-> kind, xdata |-> xs, ydata |-> ys, color |-> color, label |-> label]

\* RadarAxes.__init__: the axes of class cls; made_after notes the latest
\* radar_factory call at the time. The base class builds the spines, then
\* the patch; RadarAxes then turns the zero angle to the top.
RadarAxes_init(cls, made_after) ==
    LET spines == _gen_axes_spines(cls)
        patch == _gen_axes_patch(cls)
        ax == [cls |-> cls, made_after |-> made_after, patch |-> patch.value,
               spine |-> spines.value, theta_zero_location |-> "N",
               children |-> << >>, rgrids |-> << >>, title |-> "",
               thetagrids |-> << >>, varlabels |-> << >>, legend |-> << >>,
               gridline |-> Path(0, 0)]
    IN  IF spines.raised # NoError THEN [raised |-> spines.raised, ax |-> << >>]
        ELSE IF patch.raised # NoError THEN [raised |-> patch.raised, ax |-> << >>]
        ELSE [raised |-> NoError, ax |-> << ax >>]

\* A _close_line that appends the first point whatever the line's ends are.
_close_line_always(line) ==
    IF Len(line.xdata) = 0
    THEN [raised |-> IndexError("index 0 is out of bounds"), line |-> line]
    ELSE [raised |-> NoError,
          line |-> [line EXCEPT !.xdata = np_append(line.xdata, line.xdata[1]),
                                !.ydata = np_append(line.ydata, line.ydata[1])]]

\* A _close_line that never appends.
_close_line_never(line) ==
    IF Len(line.xdata) = 0
    THEN [raised |-> IndexError("index 0 is out of bounds"), line |-> line]
    ELSE [raised |-> NoError, line |-> line]

\* RadarAxes._close_line: x[0] of an empty line raises IndexError.
_close_line(line) ==
    LET x == line.xdata
        y == line.ydata
    IN  IF Len(x) = 0
        THEN [raised |-> IndexError("index 0 is out of bounds"), line |-> line]
        ELSE IF x[1] # x[Len(x)]
        THEN [raised |-> NoError,
              line |-> [line EXCEPT !.xdata = np_append(x, x[1]),
                                    !.ydata = np_append(y, y[1])]]
        ELSE [raised |-> NoError, line |-> line]

\* RadarAxes.plot(x, y, color=color): PolarAxes.plot adds one Line2D (it
\* refuses x and y of different lengths), then the line is closed in place.
\* The line stays on the axes when closing it raises.
RadarAxes_plot(ax, xs, ys, color) ==
    IF Len(xs) # Len(ys)
    THEN [raised |-> ValueError("x and y must have same first dimension", ""), ax |-> ax]
    ELSE LET closed == _close_line(Artist("Line2D", xs, ys, color, "_child"))
         IN  [raised |-> closed.raised,
              ax |-> [ax EXCEPT !.children = Append(@, closed.line)]]

\* Polygon(xy, closed=closed): a closed polygon repeats its first point at the
\* end unless its last point already is the first.
Polygon(xs, ys, closed, facecolor, label) ==
    IF closed /\ Len(xs) > 0 /\ (xs[1] # xs[Len(xs)] \/ ys[1] # ys[Len(ys)])
    THEN Artist("Polygon", np_append(xs, xs[1]), np_append(ys, ys[1]), facecolor, label)
    ELSE Artist("Polygon", xs, ys, facecolor, label)

\* RadarAxes.fill(x, y, facecolor=..., label=...): closed=True by default.
RadarAxes_fill(ax, xs, ys, facecolor, label) ==
    IF Len(xs) # Len(ys)
    THEN [raised |-> ValueError("x and y must have same first dimension", ""), ax |-> ax]
    ELSE [raised |-> NoError,
          ax |-> [ax EXCEPT !.children = Append(@, Polygon(xs, ys, TRUE, facecolor, label))]]

\* PolarAxes.set_thetagrids(angles, labels): the tick positions are set first;
\* the labels are then fitted to them. A non-empty label list of another
\* length than the positions is refused with a ValueError (the positions stay
\* set, the labels stay as they were); an empty list clears the labels.
set_thetagrids(ax, angles, lbls) ==
    LET placed == [ax EXCEPT !.thetagrids = angles] IN
    IF Len(lbls) # Len(angles) /\ Len(lbls) # 0
    THEN [raised |-> ValueError("The number of FixedLocator locations does not match the number of labels", ""),
          ax |-> placed]
    ELSE [raised |-> NoError, ax |-> [placed EXCEPT !.varlabels = lbls]]

\* A set_varlabels that hands the angles over in radians.
set_varlabels_radians(ax, lbls) == set_thetagrids(ax, ax.cls.theta, lbls)

\* RadarAxes.set_varlabels
set_varlabels(ax, lbls) == set_thetagrids(ax, np_degrees(ax.cls.theta), lbls)

\* The indices, in creation order, of the artists a legend may show:
\* every line and patch of the axes except those labelled '_nolegend_'.
legend_handles(ax) ==
    LET shown(i) == ax.children[i].label # "_nolegend_"
    IN  SelectSeq([i \in 1..Len(ax.children) |-> i], shown)

\* ax.legend(labels): label k goes with the k-th handle; the shorter of the
\* two lists decides how many entries there are.
legend(ax, lbls) ==
    LET handles == legend_handles(ax)
        n == IF Len(handles) < Len(lbls) THEN Len(handles) ELSE Len(lbls)
    IN  [ax EXCEPT !.legend = [k \in 1..n |-> [handle |-> handles[k], label |-> lbls[k]]]]

\* Drawing an axes: its gridlines are paths of two vertices that ask for
\* interpolation (180 steps in PolarAxes), sent through the RadarTransform.
draw(ax) == [ax EXCEPT !.gridline = transform_path_non_affine(ax.cls, Path(2, 180))]

\* plt.subplots(nrows, ncols, subplot_kw=dict(projection=name)): nrows * ncols
\* axes of the class registered under name, created one after the other; the
\* first failure is raised and no axes is returned.
Call(op, args) == [op |-> op, args |-> args]

add_subplot(reg, name, made_after) ==
    IF name \notin DOMAIN reg
    THEN [raised |-> ValueError("Unknown projection ", name), ax |-> << >>]
    ELSE RadarAxes_init(reg[name], made_after)

subplots(reg, nrows, ncols, name, made_after) ==
    LET one == add_subplot(reg, name, made_after) IN
    IF one.raised # NoError THEN [raised |-> one.raised, axs |-> << >>]
    ELSE [raised |-> NoError, axs |-> [i \in 1..(nrows * ncols) |-> one.ax[1]]]

Min(a, b) == IF a < b THEN a ELSE b

\* ---------------------------------------------------------------- state
NoCall == [num_vars |-> 0, frame |-> ""]
NoFigure == [created |-> FALSE, nrows |-> 0, ncols |-> 0, adjust |-> << >>,
             texts |-> << >>, shown |-> FALSE]

\* What the importing programs of the model pass in.
NumVarsChoices == (1..MaxNumVars) \cup {N}
FrameChoices == Frames \cup {"triangle"}
Points == { << 0, 1 >>, << 0, 2 >>, << 1, 1 >> }
PointSeqs == UNION { [1..n -> Points] : n \in 0..MaxLen }
xs_of(pts) == [i \in 1..Len(pts) |-> pts[i][1]]
ys_of(pts) == [i \in 1..Len(pts) |-> pts[i][2]]
LabelCounts(n) == {0, n - 1, n, n + 1}
LabelList(k) == [i \in 1..k |-> ToString(i)]

\* The module is run as a script, or imported by a client that configures
\* projections and creates axes, or by one that sets a projection up once
\* and plots on one axes.
Init ==
    /\ pc \in {"main", "client", "plotter"}
    /\ projections = [n \in {} |-> NoCall]
    /\ current = NoCall
    /\ theta = << >>
    /\ axs = << >>
    /\ fig = NoFigure
    /\ data = << >>
    /\ spoke_labels = << >>
    /\ raised = NoError
    /\ last = Call("import", << >>)
    /\ ai = 0
    /\ ri = 0

\* The effect of theta = radar_factory(num_vars, frame) on the registry, the
\* caller's theta and what is raised.
DoRadarFactory(num_vars, frame) ==
    LET r == radar_factory(num_vars, frame) IN
    /\ raised' = r.raised
    /\ last' = Call("radar_factory", << num_vars, frame >>)
    /\ IF r.raised = NoError
       THEN /\ projections' = register_projection(projections, r.cls[1])
            /\ theta' = r.theta
       ELSE UNCHANGED << projections, theta >>
    /\ current' = [num_vars |-> num_vars, frame |-> frame]

\* ------------------------------------------------------------ __main__
\* Where the axes loop goes with index i, and the row loop with index j.
AxesLoop(i) == IF i <= Min(Len(axs), Len(data)) THEN "set_rgrids" ELSE "legend"
RowLoop(j) == IF j <= Min(Len(data[ai][2]), Len(colors)) THEN "plot" ELSE "set_varlabels"

\* theta = radar_factory(N, frame='polygon')
Main_radar_factory ==
    /\ pc = "main"
    /\ DoRadarFactory(N, "polygon")
    /\ pc' = IF raised' = NoError THEN "example_data" ELSE "aborted"
    /\ UNCHANGED << axs, fig, data, spoke_labels, ai, ri >>

\* data = example_data()
Main_example_data ==
    /\ pc = "example_data"
    /\ data' = example_data
    /\ last' = Call("example_data", << >>)
    /\ pc' = "pop"
    /\ UNCHANGED << projections, current, theta, axs, fig, spoke_labels, raised, ai, ri >>

\* spoke_labels = data.pop(0)
Main_pop ==
    /\ pc = "pop"
    /\ spoke_labels' = list_pop0(data).popped
    /\ data' = list_pop0(data).rest
    /\ last' = Call("pop", << 0 >>)
    /\ pc' = "subplots"
    /\ UNCHANGED << projections, current, theta, axs, fig, raised, ai, ri >>

\* fig, axs = plt.subplots(figsize=(9, 9), nrows=2, ncols=2,
\*                         subplot_kw=dict(projection='radar'))
Main_subplots ==
    /\ pc = "subplots"
    /\ LET r == subplots(projections, 2, 2, "radar", current) IN
       /\ raised' = r.raised
       /\ axs' = r.axs
       /\ fig' = IF r.raised = NoError
                 THEN [fig EXCEPT !.created = TRUE, !.nrows = 2, !.ncols = 2]
                 ELSE fig
       /\ pc' = IF r.raised = NoError THEN "subplots_adjust" ELSE "aborted"
    /\ last' = Call("subplots", << 2, 2, "radar" >>)
    /\ UNCHANGED << projections, current, theta, data, spoke_labels, ai, ri >>

\* fig.subplots_adjust(wspace=0.25, hspace=0.20, top=0.85, bottom=0.05), in
\* hundredths; the axes loop starts.
Main_subplots_adjust ==
    /\ pc = "subplots_adjust"
    /\ fig' = [fig EXCEPT !.adjust = << 25, 20, 85, 5 >>]
    /\ last' = Call("subplots_adjust", << >>)
    /\ ai' = 1
    /\ pc' = AxesLoop(1)
    /\ UNCHANGED << projections, current, theta, axs, data, spoke_labels, raised, ri >>

\* ax.set_rgrids([0.2, 0.4, 0.6, 0.8])
Main_set_rgrids ==
    /\ pc = "set_rgrids"
    /\ axs' = [axs EXCEPT ![ai].rgrids = rgrids]
    /\ last' = Call("set_rgrids", << ai >>)
    /\ pc' = "set_title"
    /\ UNCHANGED << projections, current, theta, fig, data, spoke_labels, raised, ai, ri >>

\* ax.set_title(title, ...); the row loop starts.
Main_set_title ==
    /\ pc = "set_title"
    /\ axs' = [axs EXCEPT ![ai].title = data[ai][1]]
    /\ last' = Call("set_title", << ai >>)
    /\ ri' = 1
    /\ pc' = RowLoop(1)
    /\ UNCHANGED << projections, current, theta, fig, data, spoke_labels, raised, ai >>

\* ax.plot(theta, d, color=color)
Main_plot ==
    /\ pc = "plot"
    /\ LET r == RadarAxes_plot(axs[ai], theta, data[ai][2][ri], colors[ri]) IN
       /\ raised' = r.raised
       /\ axs' = [axs EXCEPT ![ai] = r.ax]
       /\ pc' = IF r.raised = NoError THEN "fill" ELSE "aborted"
    /\ last' = Call("plot", << ai, theta, data[ai][2][ri] >>)
    /\ UNCHANGED << projections, current, theta, fig, data, spoke_labels, ai, ri >>

\* ax.fill(theta, d, facecolor=color, alpha=0.25, label='_nolegend_'); the
\* row loop goes on.
Main_fill ==
    /\ pc = "fill"
    /\ LET r == RadarAxes_fill(axs[ai], theta, data[ai][2][ri], colors[ri], fill_label) IN
       /\ raised' = r.raised
       /\ axs' = [axs EXCEPT ![ai] = r.ax]
       /\ pc' = IF r.raised = NoError THEN RowLoop(ri + 1) ELSE "aborted"
    /\ last' = Call("fill", << ai, theta, data[ai][2][ri] >>)
    /\ ri' = ri + 1
    /\ UNCHANGED << projections, current, theta, fig, data, spoke_labels, ai >>

\* ax.set_varlabels(spoke_labels); the axes loop goes on.
Main_set_varlabels ==
    /\ pc = "set_varlabels"
    /\ LET r == set_varlabels(axs[ai], spoke_labels) IN
       /\ raised' = r.raised
       /\ axs' = [axs EXCEPT ![ai] = r.ax]
       /\ pc' = IF r.raised = NoError THEN AxesLoop(ai + 1) ELSE "aborted"
    /\ last' = Call("set_varlabels", << ai, spoke_labels, axs[ai].varlabels >>)
    /\ ai' = ai + 1
    /\ UNCHANGED << projections, current, theta, fig, data, spoke_labels, ri >>

\* legend = axs[0, 0].legend(labels, ...)
Main_legend ==
    /\ pc = "legend"
    /\ axs' = [axs EXCEPT ![1] = legend(axs[1], labels)]
    /\ last' = Call("legend", << 1, labels >>)
    /\ pc' = "text"
    /\ UNCHANGED << projections, current, theta, fig, data, spoke_labels, raised, ai, ri >>

\* fig.text(0.5, 0.965, '...', ...), the position in thousandths.
Main_text ==
    /\ pc = "text"
    /\ fig' = [fig EXCEPT !.texts = Append(@, [x |-> 500, y |-> 965, s |-> banner])]
    /\ last' = Call("text", << >>)
    /\ pc' = "show"
    /\ UNCHANGED << projections, current, theta, axs, data, spoke_labels, raised, ai, ri >>

\* plt.show(): every axes is drawn.
Main_show ==
    /\ pc = "show"
    /\ axs' = [i \in 1..Len(axs) |-> draw(axs[i])]
    /\ fig' = [fig EXCEPT !.shown = TRUE]
    /\ last' = Call("show", << >>)
    /\ pc' = "done"
    /\ UNCHANGED << projections, current, theta, data, spoke_labels, raised, ai, ri >>

\* ------------------------------------------------- a configuring client
\* radar_factory(n, f), with a small count and any frame name.
Client_radar_factory ==
    /\ pc = "client"
    /\ \E n \in 1..MaxNumVars, f \in FrameChoices : DoRadarFactory(n, f)
    /\ UNCHANGED << pc, axs, fig, data, spoke_labels, ai, ri >>

\* plt.subplot(projection='radar'): one more axes, unless creating it raises
\* (the client catches what is raised and goes on).
Client_add_subplot ==
    /\ pc = "client"
    /\ Len(axs) < MaxAxes
    /\ LET r == add_subplot(projections, "radar", current) IN
       /\ raised' = r.raised
       /\ axs' = axs \o r.ax
    /\ last' = Call("add_subplot", << "radar" >>)
    /\ UNCHANGED << pc, projections, current, theta, fig, data, spoke_labels, ai, ri >>

\* Drawing one of the axes.
Client_draw ==
    /\ pc = "client"
    /\ \E a \in 1..Len(axs) :
          /\ axs' = [axs EXCEPT ![a] = draw(axs[a])]
          /\ last' = Call("draw", << a >>)
    /\ raised' = NoError
    /\ UNCHANGED << pc, projections, current, theta, fig, data, spoke_labels, ai, ri >>

\* ---------------------------------------------------- a plotting client
\* theta = radar_factory(n, frame='polygon'), as the script does, with a
\* small count or the script's.
Plotter_radar_factory ==
    /\ pc = "plotter"
    /\ \E n \in NumVarsChoices : DoRadarFactory(n, "polygon")
    /\ pc' = "plotter_axes"
    /\ UNCHANGED << axs, fig, data, spoke_labels, ai, ri >>

\* ax = plt.subplot(projection='radar')
Plotter_add_subplot ==
    /\ pc = "plotter_axes"
    /\ LET r == add_subplot(projections, "radar", current) IN
       /\ raised' = r.raised
       /\ axs' = axs \o r.ax
       /\ pc' = IF r.raised = NoError THEN "plotting" ELSE "aborted"
    /\ last' = Call("add_subplot", << "radar" >>)
    /\ UNCHANGED << projections, current, theta, fig, data, spoke_labels, ai, ri >>

\* ax.plot(x, y, color='b') with any points (the client catches what is
\* raised and goes on).
Plotter_plot ==
    /\ pc = "plotting"
    /\ Len(axs[1].children) < MaxLines
    /\ \E pts \in PointSeqs :
          LET r == RadarAxes_plot(axs[1], xs_of(pts), ys_of(pts), "b") IN
          /\ raised' = r.raised
          /\ axs' = [axs EXCEPT ![1] = r.ax]
          /\ last' = Call("plot", << 1, xs_of(pts), ys_of(pts) >>)
    /\ UNCHANGED << pc, projections, current, theta, fig, data, spoke_labels, ai, ri >>

\* ax._close_line(line) once more on a line of the axes.
Plotter_close_line ==
    /\ pc = "plotting"
    /\ \E i \in 1..Len(axs[1].children) :
          LET r == _close_line(axs[1].children[i]) IN
          /\ raised' = r.raised
          /\ axs' = [axs EXCEPT ![1].children[i] = r.line]
          /\ last' = Call("_close_line", << 1, i, axs[1].children[i] >>)
    /\ UNCHANGED << pc, projections, current, theta, fig, data, spoke_labels, ai, ri >>

\* ax.set_varlabels(labels) with as many labels as there are variables, one
\* fewer, one more, or none.
Plotter_set_varlabels ==
    /\ pc = "plotting"
    /\ \E k \in LabelCounts(axs[1].cls.num_vars) :
          LET r == set_varlabels(axs[1], LabelList(k)) IN
          /\ raised' = r.raised
          /\ axs' = [axs EXCEPT ![1] = r.ax]
          /\ last' = Call("set_varlabels", << 1, LabelList(k), axs[1].varlabels >>)
    /\ UNCHANGED << pc, projections, current, theta, fig, data, spoke_labels, ai, ri >>

\* ------------------------------------------------------------------ Spec
Next ==
    \/ Main_radar_factory
    \/ Main_example_data
    \/ Main_pop
    \/ Main_subplots
    \/ Main_subplots_adjust
    \/ Main_set_rgrids
    \/ Main_set_title
    \/ Main_plot
    \/ Main_fill
    \/ Main_set_varlabels
    \/ Main_legend
    \/ Main_text
    \/ Main_show
    \/ Client_radar_factory
    \/ Client_add_subplot
    \/ Client_draw
    \/ Plotter_radar_factory
    \/ Plotter_add_subplot
    \/ Plotter_plot
    \/ Plotter_close_line
    \/ Plotter_set_varlabels

Spec == Init /\ [][Next]_vars

\* ================================================================ claims
LastAxes == axs[last.args[1]]
NewestChild(ax) == ax.children[Len(ax.children)]
Lines(ax) == { i \in 1..Len(ax.children) : ax.children[i].kind = "Line2D" }
Fills(ax) == { i \in 1..Len(ax.children) : ax.children[i].kind = "Polygon" }

\* C1: once radar_factory(n, frame) has returned, the caller holds exactly n
\* angles; angle i (from 0) is 2*pi*i/n, the first is 0, they increase
\* strictly by the same step 2*pi/n, and all are below 2*pi.
C1_EvenlySpacedAngles ==
    current # NoCall =>
        LET n == current.num_vars IN
        /\ Len(theta) = n
        /\ theta[1] = 0
        /\ \A i \in 1..n : theta[i] * n = TwoPi * (i - 1)
        /\ \A i \in 1..(n - 1) :
              /\ theta[i] < theta[i + 1]
              /\ (theta[i + 1] - theta[i]) * n = TwoPi
        /\ \A i \in 1..n : 0 <= theta[i] /\ theta[i] < TwoPi

C1_Witness ==
    /\ last.op = "radar_factory"
    /\ current.num_vars = N
    /\ Len(theta) = N
    /\ theta[N] > theta[2]

\* C2: a line plotted through RadarAxes.plot whose first and last points
\* (angle and value) differ ends with the points it was given, in order,
\* followed by one copy of its first point.
C2_ClosedWhenEndPointsDiffer ==
    (last.op = "plot" /\ raised = NoError) =>
        LET xs == last.args[2]
            ys == last.args[3]
            line == NewestChild(LastAxes)
        IN  (Len(xs) > 0 /\ << xs[1], ys[1] >> # << xs[Len(xs)], ys[Len(ys)] >>) =>
                /\ line.xdata = Append(xs, xs[1])
                /\ line.ydata = Append(ys, ys[1])

\* C3 as stated: radar_factory with a frame other than 'circle' and
\* 'polygon' raises an error naming the frame, and no class with such a
\* frame is ever registered.
C3_FactoryRejectsUnknownFrame ==
    /\ (last.op = "radar_factory" /\ last.args[2] \notin Frames) =>
          (raised.type = "ValueError" /\ raised.arg = last.args[2])
    /\ \A n \in DOMAIN projections : projections[n].frame \in Frames

\* C3 as amended: radar_factory with an unknown frame raises nothing, returns
\* its angles and registers the class; creating an axes of the class
\* registered under 'radar' then raises a ValueError naming the frame, and no
\* axes ever has an unknown frame or a frame patch other than its frame's.
C3_UnknownFrameFailsAtAxesCreation ==
    /\ (last.op = "radar_factory" /\ last.args[2] \notin Frames) =>
          /\ raised = NoError
          /\ Len(theta) = last.args[1]
          /\ "radar" \in DOMAIN projections
          /\ projections["radar"].frame = last.args[2]
    /\ (/\ last.op \in {"add_subplot", "subplots"}
        /\ "radar" \in DOMAIN projections
        /\ projections["radar"].frame \notin Frames) =>
          /\ raised.type = "ValueError"
          /\ raised.msg = "Unknown value for 'frame': "
          /\ raised.arg = projections["radar"].frame
    /\ \A a \in 1..Len(axs) :
          /\ axs[a].cls.frame \in Frames
          /\ axs[a].patch.kind = axs[a].cls.frame

C3_Witness ==
    /\ last.op = "add_subplot"
    /\ current.frame = "triangle"
    /\ raised.type = "ValueError"
    /\ raised.arg = "triangle"

\* C4: the frame patch of an axes follows its frame: a circle centred at
\* (0.5, 0.5) of radius 0.5, or a regular polygon of num_vars vertices centred
\* at (0.5, 0.5) of radius 0.5, whose spine has the same vertex count, centre
\* and radius.
C4_FramePatch ==
    \A a \in 1..Len(axs) :
        LET ax == axs[a] IN
        /\ ax.cls.frame = "circle" =>
              /\ ax.patch.kind = "circle"
              /\ ax.patch.center = << 5, 5 >>
              /\ ax.patch.radius = 5
        /\ ax.cls.frame = "polygon" =>
              /\ ax.patch.kind = "polygon"
              /\ ax.patch.numVertices = ax.cls.num_vars
              /\ ax.patch.center = << 5, 5 >>
              /\ ax.patch.radius = 5
              /\ ax.spine.kind = "polygon"
              /\ ax.spine.numVertices = ax.patch.numVertices
              /\ ax.spine.center = ax.patch.center
              /\ ax.spine.radius = ax.patch.radius

C4_Witness ==
    /\ Len(axs) = 2
    /\ axs[1].cls.frame = "circle"
    /\ axs[2].cls.frame = "polygon"
    /\ axs[2].patch.numVertices = 2
    /\ axs[2].spine.radius = 5

\* C5 as stated: set_varlabels with num_vars labels puts label i at
\* 360*i/num_vars degrees; with any other number of labels it raises and
\* leaves the labels as they were.
C5_LabelsOrError ==
    last.op = "set_varlabels" =>
        LET ax == LastAxes
            lbls == last.args[2]
            n == ax.cls.num_vars
        IN  IF Len(lbls) = n
            THEN /\ raised = NoError
                 /\ Len(ax.thetagrids) = n
                 /\ \A i \in 1..n : ax.thetagrids[i] * n = 360 * DegScale * (i - 1)
                 /\ ax.varlabels = lbls
            ELSE /\ raised # NoError
                 /\ ax.varlabels = last.args[3]

\* C5 as amended: as stated for num_vars labels; a non-empty list of another
\* length raises a ValueError, the positions set and the labels left as they
\* were; an empty list raises nothing and clears the labels.
C5_LabelsOrErrorUnlessEmpty ==
    last.op = "set_varlabels" =>
        LET ax == LastAxes
            lbls == last.args[2]
            n == ax.cls.num_vars
        IN  /\ Len(ax.thetagrids) = n
            /\ \A i \in 1..n : ax.thetagrids[i] * n = 360 * DegScale * (i - 1)
            /\ IF Len(lbls) = n \/ Len(lbls) = 0
               THEN /\ raised = NoError
                    /\ ax.varlabels = lbls
               ELSE /\ raised.type = "ValueError"
                    /\ ax.varlabels = last.args[3]

C5_Witness ==
    /\ last.op = "set_varlabels"
    /\ pc = "plotting"
    /\ Len(last.args[2]) = LastAxes.cls.num_vars + 1
    /\ raised.type = "ValueError"
    /\ Len(LastAxes.thetagrids) = N

\* C6: the script never aborts, and when it is done there are four axes in a
\* 2x2 grid titled Icebox, Fracture, Haven, Breeze in this order, each with
\* exactly 5 lines and 5 fills, every line of 10 points ending where it
\* starts; only the first axes has a legend, which lists the 5 player names;
\* the figure carries the banner and has been shown.
C6_EndToEnd ==
    /\ pc # "aborted"
    /\ pc = "done" =>
          /\ raised = NoError
          /\ fig.created /\ fig.nrows = 2 /\ fig.ncols = 2 /\ fig.shown
          /\ Len(axs) = 4
          /\ << axs[1].title, axs[2].title, axs[3].title, axs[4].title >>
                = << "Icebox", "Fracture", "Haven", "Breeze" >>
          /\ \A a \in 1..4 :
                /\ Cardinality(Lines(axs[a])) = 5
                /\ Cardinality(Fills(axs[a])) = 5
                /\ Len(axs[a].children) = 10
                /\ \A i \in Lines(axs[a]) :
                      LET line == axs[a].children[i] IN
                      /\ Len(line.xdata) = 10
                      /\ Len(line.ydata) = 10
                      /\ line.xdata[10] = line.xdata[1]
                      /\ line.ydata[10] = line.ydata[1]
                /\ Len(axs[a].varlabels) = 9
          /\ [k \in 1..Len(axs[1].legend) |-> axs[1].legend[k].label]
                = << "Shao", "Zyppan", "Jinggg", "SUGETSU", "ANGE1" >>
          /\ \A a \in 2..4 : axs[a].legend = << >>
          /\ Len(fig.texts) = 1
          /\ fig.texts[1].s = "Top 5 players across the last 4 maps of Masters Copenhagen 2022"

C6_Witness ==
    /\ pc = "done"
    /\ fig.shown
    /\ Len(axs) = 4
    /\ Len(axs[4].children) = 10

\* C7: what example_data() returns is 9 category labels followed by 4 map
\* entries of 5 rows of 9 values each, every value in [0, 1]; after
\* data.pop(0) the 4 map entries are left, in their order, and spoke_labels
\* holds the 9 labels.
C7_TableWellFormed ==
    /\ pc = "pop" =>
          /\ Len(data) = 5
          /\ Len(data[1]) = 9
          /\ \A k \in 2..5 :
                /\ Len(data[k]) = 2
                /\ Len(data[k][2]) = 5
                /\ \A r \in 1..5 :
                      /\ Len(data[k][2][r]) = 9
                      /\ \A c \in 1..9 : data[k][2][r][c] \in 0..One
    /\ (data # << >> /\ pc # "pop") =>
          /\ Len(spoke_labels) = 9
          /\ Len(data) = 4
          /\ << data[1][1], data[2][1], data[3][1], data[4][1] >>
                = << "Icebox", "Fracture", "Haven", "Breeze" >>
          /\ \A k \in 1..4 :
                /\ data[k] = example_data[k + 1]
                /\ Len(data[k][2]) = 5
                /\ \A r \in 1..5 :
                      /\ Len(data[k][2][r]) = 9
                      /\ \A c \in 1..9 : data[k][2][r][c] \in 0..One

C7_Witness ==
    /\ pc = "subplots"
    /\ Len(data) = 4
    /\ Len(spoke_labels) = 9

\* C8: on every axes of the script, row i is drawn as artist 2i-1 (its line)
\* and artist 2i (its fill), both in colour i of b, r, g, m, y and both with
\* the values of row i of the axes's map; the legend of the first axes pairs
\* player name i with the line of row i.
C8_RowsAlignNamesAndColours ==
    fig.created =>
        /\ \A a \in 1..Len(axs) : \A i \in 1..5 :
              LET ch == axs[a].children
                  colour == << "b", "r", "g", "m", "y" >>[i]
                  row == data[a][2][i]
              IN  /\ 2 * i - 1 <= Len(ch) =>
                        /\ ch[2 * i - 1].kind = "Line2D"
                        /\ ch[2 * i - 1].color = colour
                        /\ SubSeq(ch[2 * i - 1].ydata, 1, 9) = row
                  /\ 2 * i <= Len(ch) =>
                        /\ ch[2 * i].kind = "Polygon"
                        /\ ch[2 * i].color = colour
                        /\ SubSeq(ch[2 * i].ydata, 1, 9) = row
                        /\ ch[2 * i].label = "_nolegend_"
        /\ pc \in {"text", "show", "done"} =>
              axs[1].legend =
                 [i \in 1..5 |->
                    [handle |-> 2 * i - 1,
                     label |-> << "Shao", "Zyppan", "Jinggg", "SUGETSU", "ANGE1" >>[i]]]

C8_Witness ==
    /\ pc = "done"
    /\ Len(axs[1].legend) = 5
    /\ axs[1].legend[5].label = "ANGE1"
    /\ axs[1].children[axs[1].legend[5].handle].color = "y"

C10_State ==
    /\ DOMAIN projections \subseteq {"radar"}
    /\ current # NoCall =>
          /\ DOMAIN projections = {"radar"}
          /\ projections["radar"].num_vars = current.num_vars
          /\ projections["radar"].frame = current.frame
    /\ \A a \in 1..Len(axs) :
          LET ax == axs[a]
              made == ax.made_after
          IN  /\ ax.cls.num_vars = made.num_vars
              /\ ax.cls.frame = made.frame
              /\ ax.patch.kind = made.frame
              /\ made.frame = "polygon" =>
                    (ax.patch.numVertices = made.num_vars /\ ax.spine.numVertices = made.num_vars)
              /\ Len(ax.cls.theta) = made.num_vars
              /\ ax.thetagrids # << >> => Len(ax.thetagrids) = made.num_vars
              /\ ax.gridline # Path(0, 0) => ax.gridline.n_vertices = made.num_vars + 1

C10_Step ==
    \A a \in 1..Len(axs) : a <= Len(axs') /\ axs'[a].cls = axs[a].cls

\* C10: in every state the registry and the axes are as C10_State says, and
\* every step keeps the class of each axes that exists.
C10_LatestCallWins == [](C10_State) /\ [][C10_Step]_vars

C10_Witness ==
    /\ Len(axs) = 2
    /\ axs[1].cls.num_vars # current.num_vars
    /\ axs[1].cls.frame # current.frame
    /\ axs[2].cls.num_vars = current.num_vars
    /\ axs[2].cls.frame = current.frame
    /\ axs[1].gridline # Path(0, 0)

====
